---- MODULE Spec2Model ----
(***************************************************************************)
(* A model of py2droid's build scripts (scripts/build.py) and of the       *)
(* module's wrapper script (module/update-bin.py).                         *)
(*                                                                         *)
(* The module holds several specifications over one set of variables:      *)
(*   SpecDebloat       ModuleBuilder._debloat on a small prefix tree, run  *)
(*                     twice in a row.                                     *)
(*   SpecDebloatOrder  the same stage on two-rule lists with literal       *)
(*                     patterns.                                           *)
(*   SpecShebang       ModuleBuilder._fix_shebangs on the files of bin/.   *)
(*   SpecProp          parse_module_prop and format_module_prop.           *)
(*   SpecSource        CPythonBuilder.build.                               *)
(*   SpecPackage       ModuleBuilder.build.                                *)
(*   SpecWrapper       sync_wrappers, run twice in a row.                  *)
(* Each specification keeps the variables of the other parts at a fixed    *)
(* idle value.                                                             *)
(***************************************************************************)
EXTENDS Integers, Sequences, FiniteSets, TLC

VARIABLES
    \* ---- ModuleBuilder._debloat ----
    tree,               \* the prefix tree: location -> entry
    tree0,              \* the tree before the first run
    tree1,              \* the tree left by the first run
    debloat_patterns,   \* config.debloat_patterns, in declaration order
    dpc,                \* position in _debloat: "uncond", "cond", "done"
    dci,                \* index of the conditional rule being applied
    seen,               \* paths the running glob has already yielded
    drun,               \* 1: first run, 2: second run
    removed,            \* deletions decided by conditional rules
    \* ---- ModuleBuilder._fix_shebangs ----
    bin,                \* prefix/bin: name -> entry (kind, bytes)
    bin0,               \* prefix/bin before the first run
    bin1,               \* prefix/bin as the first run left it
    listed,             \* names iterdir() has already yielded
    patched,            \* names logged as "Patched", over both runs
    spc,                \* position in _fix_shebangs: "iter", "done"
    srun,               \* 1: first run, 2: second run
    \* ---- parse_module_prop / format_module_prop ----
    module_prop,        \* the text of module/module.prop
    props,              \* the parsed dict, in insertion order: <<key, value>>
    prop_text,          \* the text format_module_prop returns
    ppc,                \* "parse", "format", "done"
    \* ---- CPythonBuilder.build (the source pipeline) ----
    build_hosts,        \* config.build_hosts, in configured order
    apply_patches,      \* config.apply_patches
    disk,               \* the build directory: what exists in it
    disk0,              \* the build directory when the run starts
    bpc,                \* position in main / CPythonBuilder.build
    host_i,             \* index in build_hosts of the host _build_hosts is at
    patch_n,            \* patches the glob of patches/ has yielded so far
    cmds,               \* the external commands issued so far, in order
    error,              \* the exception that ended the run, or NoError
    \* ---- ModuleBuilder.build (the packaging pipeline) ----
    hosts,              \* ModuleBuilder.hosts, in configured order
    config,             \* ModuleConfig: debloat, fix_shebangs, strip, name
    include,            \* config.include (the builder appends to it)
    cacert_exists,      \* build/cacert.pem exists
    mpc,                \* position in ModuleBuilder.build
    mhost_i,            \* index in hosts of the prefix being processed
    matched,            \* _strip: what the glob matches in the prefix
    visited,            \* _strip: matches the glob has yielded
    stripped,           \* _strip: the llvm-strip calls made, in order
    strip_failed,       \* hosts for which some llvm-strip exited non-zero
    tarballs,           \* build(): the list of tarball paths
    tar_files,          \* tarballs written to build/: <<name, host inside>>
    zip_created,        \* the output archive was opened for writing
    zip_entries,        \* the entries written to it, in order
    zip_i,              \* _package_module: index of the next entry source
    mlog,               \* the stages started so far: <<stage, host>>
    merror,             \* the exception that ended packaging, or NoError
    \* ---- update-bin.py: sync_wrappers ----
    module_bin,         \* MODULE_BIN: what each name is in the directory
    module_bin0,        \* MODULE_BIN before the first sync
    module_bin1,        \* MODULE_BIN after the first sync
    env_path,           \* the entries of PATH, in order
    wpc,                \* position in sync_wrappers
    path_i,             \* index in env_path of the entry iter_env_path is at
    existing_wrappers,  \* the names of the dict existing_wrappers
    available_executables,
    wseen,              \* the names the running loop has gone through
    wcreated,           \* names create_wrapper was called for in this sync
    wremoved,           \* names remove_wrapper was called for in this sync
    wrun                \* 1 during the first sync, 2 during the second

debloatVars == <<tree, tree0, tree1, debloat_patterns, dpc, dci, seen, drun, removed>>

shebangVars == <<bin, bin0, bin1, listed, patched, spc, srun>>

propVars == <<module_prop, props, prop_text, ppc>>

sourceVars ==
    <<build_hosts, apply_patches, disk, disk0, bpc, host_i, patch_n, cmds, error>>

packageVars ==
    <<hosts, config, include, cacert_exists, mpc, mhost_i, matched, visited,
      stripped, strip_failed, tarballs, tar_files, zip_created, zip_entries,
      zip_i, mlog, merror>>

wrapperVars ==
    <<module_bin, module_bin0, module_bin1, env_path, wpc, path_i,
      existing_wrappers, available_executables, wseen, wcreated, wremoved,
      wrun>>

vars ==
    <<debloatVars, shebangVars, propVars, sourceVars, packageVars, wrapperVars>>

\* What each part leaves alone.
notDebloat == <<shebangVars, propVars, sourceVars, packageVars, wrapperVars>>

notShebang == <<debloatVars, propVars, sourceVars, packageVars, wrapperVars>>

notProp == <<debloatVars, shebangVars, sourceVars, packageVars, wrapperVars>>

notSource == <<debloatVars, shebangVars, propVars, packageVars, wrapperVars>>

notPackage == <<debloatVars, shebangVars, propVars, sourceVars, wrapperVars>>

notWrapper == <<debloatVars, shebangVars, propVars, sourceVars, packageVars>>

----------------------------------------------------------------------------
(* Sequences helpers *)

Front(s) == SubSeq(s, 1, Len(s) - 1)

Last(s) == s[Len(s)]

IsPrefix(p, q) == Len(p) <= Len(q) /\ SubSeq(q, 1, Len(p)) = p

\* All sequences over S of length at most n.
SeqUpTo(S, n) == UNION {[1..k -> S] : k \in 0..n}

----------------------------------------------------------------------------
(* The prefix tree.                                                        *)
(*                                                                         *)
(* Locations are name sequences below the prefix.  An entry is a regular   *)
(* file, a directory, a symbolic link (with the location it points to) or  *)
(* absent.  A path handed out by the glob is a name sequence too; it is    *)
(* resolved through symbolic links as the operating system does.           *)

\* Bound of the model: the number of rules in config.debloat_patterns.
MaxRules == 2

Loc == {<<"a">>, <<"a", "x">>, <<"b">>, <<"b", "x">>}

Names == {"a", "b", "x"}

Root == <<>>

NoLoc == <<"?">>

None == [kind |-> "none", target |-> Root]

File == [kind |-> "file", target |-> Root]

Dir == [kind |-> "dir", target |-> Root]

Link(t) == [kind |-> "link", target |-> t]

\* Symbolic links followed while resolving one path before ELOOP.
MaxFollow == 4

\* The physical location of path p in tree t, or NoLoc when p does not
\* exist.  follow: whether a symbolic link in the last component is followed
\* (stat) or not (lstat).  Links in the other components are always followed.
RECURSIVE Phys(_, _, _, _)
Phys(t, p, follow, fuel) ==
    IF p = Root THEN Root
    ELSE LET par == Phys(t, Front(p), TRUE, fuel)
             loc == Append(par, Last(p))
         IN  IF par = NoLoc THEN NoLoc
             ELSE IF par # Root /\ t[par].kind # "dir" THEN NoLoc
             ELSE IF loc \notin Loc THEN NoLoc
             ELSE IF t[loc].kind = "none" THEN NoLoc
             ELSE IF t[loc].kind = "link" /\ follow
                  THEN IF fuel = 0 THEN NoLoc
                       ELSE Phys(t, t[loc].target, TRUE, fuel - 1)
             ELSE loc

\* os.path.lexists
LExists(t, p) == Phys(t, p, FALSE, MaxFollow) # NoLoc

\* Path.is_symlink()
is_symlink(t, p) ==
    LET l == Phys(t, p, FALSE, MaxFollow)
    IN  l # NoLoc /\ l # Root /\ t[l].kind = "link"

\* Path.is_dir(): follows symbolic links
is_dir(t, p) ==
    LET l == Phys(t, p, TRUE, MaxFollow)
    IN  l # NoLoc /\ (l = Root \/ t[l].kind = "dir")

\* Path.is_file(): follows symbolic links
is_file(t, p) ==
    LET l == Phys(t, p, TRUE, MaxFollow)
    IN  l # NoLoc /\ l # Root /\ t[l].kind = "file"

\* Path.unlink(): removes the entry itself, never what a link points to.
unlink(t, p) ==
    LET l == Phys(t, p, FALSE, MaxFollow)
    IN  [t EXCEPT ![l] = None]

\* shutil.rmtree(): removes a directory and everything below it.
rmtree(t, p) ==
    LET l == Phys(t, p, FALSE, MaxFollow)
    IN  [q \in Loc |-> IF IsPrefix(l, q) THEN None ELSE t[q]]

\* The kind of the entry itself (lstat): "symlink", "dir", "file" or "none".
KindOf(t, p) ==
    LET l == Phys(t, p, FALSE, MaxFollow)
    IN  IF l = NoLoc \/ l = Root THEN "none"
        ELSE IF t[l].kind = "link" THEN "symlink"
        ELSE t[l].kind

\* A tree the file system can hold: an entry exists only inside a directory.
WellFormed(t) ==
    \A l \in Loc :
        /\ (t[l].kind = "link") => (t[l].target \in Loc)
        /\ (t[l].kind # "link") => (t[l].target = Root)
        /\ (Len(l) > 1 /\ t[l].kind # "none") => (t[Front(l)].kind = "dir")

\* Where the symbolic links of the model point to.
LinkTargets == {<<"a">>, <<"a", "x">>, <<"b">>}

Entries == {None, File, Dir} \cup {Link(l) : l \in LinkTargets}

\* The trees of the model: b is a file, an empty directory, a link or absent.
\* They hold links to files, to directories, to links, to themselves and to
\* nothing.
Trees ==
    {t \in [Loc -> Entries] : WellFormed(t) /\ t[<<"b", "x">>] = None}

----------------------------------------------------------------------------
(* Glob patterns (wcmatch, flags GLOBSTARLONG | NEGATE | EXTGLOB | BRACE). *)
(* A pattern is a sequence of segments: a name, "*" (any one name) or "**" *)
(* (any number of directories, symbolic links not followed).               *)

Children(t, cur) ==
    {c \in {Append(cur, n) : n \in Names} : LExists(t, c)}

\* The paths the pattern segs matches below directory cur in tree t.
RECURSIVE GlobFrom(_, _, _)
GlobFrom(t, cur, segs) ==
    IF segs = <<>> THEN (IF cur = Root THEN {} ELSE {cur})
    ELSE IF ~is_dir(t, cur) THEN {}
    ELSE LET s == Head(segs)
             rest == Tail(segs)
             kids == Children(t, cur)
         IN  IF s = "**"
             THEN GlobFrom(t, cur, rest)
                    \cup (IF rest = <<>> THEN kids ELSE {})
                    \cup UNION {GlobFrom(t, c, segs) :
                                  c \in {k \in kids : is_dir(t, k) /\ ~is_symlink(t, k)}}
             ELSE IF s = "*"
             THEN UNION {GlobFrom(t, c, rest) : c \in kids}
             ELSE IF LExists(t, Append(cur, s))
                  THEN GlobFrom(t, Append(cur, s), rest)
                  ELSE {}

\* prefix.glob(patterns): the matches of a list of patterns.
Glob(t, pats) == UNION {GlobFrom(t, Root, pats[i]) : i \in 1..Len(pats)}

\* The patterns of the model: "**" and "*/x".
Patterns == {<<"**">>, <<"*", "x">>}

\* rm_if as written in the configuration (any letter case).
RmIfChoices == {{"file"}, {"dir"}, {"Symlink"}, {"FILE", "dir"}}

\* str.lower on the words of rm_if
Lower(w) ==
    CASE w = "FILE" -> "file"
      [] w = "Symlink" -> "symlink"
      [] OTHER -> w

\* A rule of debloat_patterns: a bare pattern (isinstance(pattern, str)) or
\* a table {pattern, rm_if}.
Rules ==
    {[str |-> TRUE, pattern |-> p, rm_if |-> {}] : p \in Patterns}
    \cup {[str |-> FALSE, pattern |-> p, rm_if |-> r] :
            p \in Patterns, r \in RmIfChoices}

----------------------------------------------------------------------------
(* Idle values of the parts a specification does not run. *)

ShebangIdle ==
    /\ bin = <<>>
    /\ bin0 = <<>>
    /\ bin1 = <<>>
    /\ listed = {}
    /\ patched = {}
    /\ spc = "idle"
    /\ srun = 1

PropIdle ==
    /\ module_prop = <<>>
    /\ props = <<>>
    /\ prop_text = <<>>
    /\ ppc = "idle"

NoError == [kind |-> "none", stage |-> "none", returncode |-> 0, output |-> "none"]

SourceIdle ==
    /\ build_hosts = <<>>
    /\ apply_patches = FALSE
    /\ disk = [tarball |-> FALSE, source_dir |-> FALSE, cross_build |-> FALSE,
               prefixes |-> {}]
    /\ disk0 = disk
    /\ bpc = "idle"
    /\ host_i = 1
    /\ patch_n = 0
    /\ cmds = <<>>
    /\ error = NoError

WrapperIdle ==
    /\ module_bin = <<>>
    /\ module_bin0 = <<>>
    /\ module_bin1 = <<>>
    /\ env_path = <<>>
    /\ wpc = "idle"
    /\ path_i = 1
    /\ existing_wrappers = {}
    /\ available_executables = {}
    /\ wseen = {}
    /\ wcreated = {}
    /\ wremoved = {}
    /\ wrun = 1

PackageIdle ==
    /\ hosts = <<>>
    /\ config = [debloat |-> FALSE, fix_shebangs |-> FALSE, strip |-> FALSE,
                 name |-> {}]
    /\ include = <<>>
    /\ cacert_exists = FALSE
    /\ mpc = "idle"
    /\ mhost_i = 1
    /\ matched = <<>>
    /\ visited = {}
    /\ stripped = <<>>
    /\ strip_failed = {}
    /\ tarballs = <<>>
    /\ tar_files = {}
    /\ zip_created = FALSE
    /\ zip_entries = <<>>
    /\ zip_i = 1
    /\ mlog = <<>>
    /\ merror = NoError

----------------------------------------------------------------------------
(* ModuleBuilder._debloat                                                  *)

\* patterns: the bare patterns of debloat_patterns, in order.
patterns ==
    LET strs == SelectSeq(debloat_patterns, LAMBDA r : r.str)
    IN  [i \in 1..Len(strs) |-> strs[i].pattern]

\* conditional_patterns: the {pattern, rm_if} tables, in order.
conditional_patterns == SelectSeq(debloat_patterns, LAMBDA r : ~r.str)

\* rm_if = set(map(str.lower, rm_if))
RmIf(rule) == {Lower(w) : w \in rule.rm_if}

\* The body of the first loop: what is done to a path an unconditional
\* pattern matched.
RemoveUnconditional(t, p) ==
    IF is_dir(t, p) /\ ~is_symlink(t, p) THEN rmtree(t, p) ELSE unlink(t, p)

\* The branch the second loop takes for a matched path.
ConditionalBranch(t, p, rm_if) ==
    IF (is_dir(t, p) /\ ~is_symlink(t, p)) /\ "dir" \in rm_if
    THEN "rmtree"
    ELSE IF (is_symlink(t, p) /\ "symlink" \in rm_if)
              \/ (is_file(t, p) /\ "file" \in rm_if)
    THEN "unlink"
    ELSE "continue"

\* The paths already yielded, after a matched path was left alone:
\* the loop goes on with the next match.
SkipEntryBreak(yielded, p) == Loc

SkipEntry(yielded, p) == yielded \cup {p}

\* The matches the running glob has still to yield.  The glob walks the
\* tree lazily, so that it yields only what exists when it gets there.
Pending(t, pats) == Glob(t, pats) \ seen

DebloatInit ==
    /\ tree \in Trees
    /\ tree0 = tree
    /\ tree1 = tree
    /\ debloat_patterns \in SeqUpTo(Rules, MaxRules)
    /\ dpc = "uncond"
    /\ dci = 1
    /\ seen = {}
    /\ drun = 1
    /\ removed = {}
    /\ ShebangIdle
    /\ PropIdle
    /\ SourceIdle
    /\ PackageIdle
    /\ WrapperIdle

DebloatIdle ==
    /\ tree = [l \in Loc |-> None]
    /\ tree0 = tree
    /\ tree1 = tree
    /\ debloat_patterns = <<>>
    /\ dpc = "idle"
    /\ dci = 1
    /\ seen = {}
    /\ drun = 1
    /\ removed = {}

\* for path in prefix.glob(patterns): remove it.
DebloatUnconditional ==
    /\ dpc = "uncond"
    /\ \E p \in Pending(tree, patterns) :
        /\ tree' = RemoveUnconditional(tree, p)
        /\ seen' = seen \cup {p}
    /\ UNCHANGED <<tree0, tree1, debloat_patterns, dpc, dci, drun, removed>>
    /\ UNCHANGED notDebloat

\* The first loop ends; the conditional rules follow.
DebloatUnconditionalEnd ==
    /\ dpc = "uncond"
    /\ Pending(tree, patterns) = {}
    /\ dpc' = "cond"
    /\ dci' = 1
    /\ seen' = {}
    /\ UNCHANGED <<tree, tree0, tree1, debloat_patterns, drun, removed>>
    /\ UNCHANGED notDebloat

\* for path in prefix.glob(raw_pattern): remove it if rm_if says so.
DebloatConditional ==
    /\ dpc = "cond"
    /\ dci <= Len(conditional_patterns)
    /\ LET rule == conditional_patterns[dci]
           rm_if == RmIf(rule)
       IN  \E p \in Pending(tree, <<rule.pattern>>) :
             LET branch == ConditionalBranch(tree, p, rm_if)
             IN  /\ tree' = CASE branch = "rmtree" -> rmtree(tree, p)
                              [] branch = "unlink" -> unlink(tree, p)
                              [] OTHER -> tree
                 /\ seen' = IF branch = "continue"
                            THEN SkipEntry(seen, p)
                            ELSE seen \cup {p}
                 /\ removed' = IF branch = "continue" THEN removed
                               ELSE removed \cup
                                      {[path |-> p, kind |-> KindOf(tree, p),
                                        rm_if |-> rm_if]}
    /\ UNCHANGED <<tree0, tree1, debloat_patterns, dpc, dci, drun>>
    /\ UNCHANGED notDebloat

\* The glob of one conditional rule is exhausted: the next rule.
DebloatConditionalNext ==
    /\ dpc = "cond"
    /\ dci <= Len(conditional_patterns)
    /\ Pending(tree, <<conditional_patterns[dci].pattern>>) = {}
    /\ dci' = dci + 1
    /\ seen' = {}
    /\ UNCHANGED <<tree, tree0, tree1, debloat_patterns, dpc, drun, removed>>
    /\ UNCHANGED notDebloat

\* _debloat returns.
DebloatReturn ==
    /\ dpc = "cond"
    /\ dci > Len(conditional_patterns)
    /\ dpc' = "done"
    /\ tree1' = IF drun = 1 THEN tree ELSE tree1
    /\ UNCHANGED <<tree, tree0, debloat_patterns, dci, seen, drun, removed>>
    /\ UNCHANGED notDebloat

\* The stage is run a second time on the tree the first run left.
DebloatAgain ==
    /\ dpc = "done"
    /\ drun = 1
    /\ drun' = 2
    /\ dpc' = "uncond"
    /\ dci' = 1
    /\ seen' = {}
    /\ UNCHANGED <<tree, tree0, tree1, debloat_patterns, removed>>
    /\ UNCHANGED notDebloat

DebloatNext ==
    \/ DebloatUnconditional
    \/ DebloatUnconditionalEnd
    \/ DebloatConditional
    \/ DebloatConditionalNext
    \/ DebloatReturn
    \/ DebloatAgain

SpecDebloat == DebloatInit /\ [][DebloatNext]_vars

----------------------------------------------------------------------------
(* Claims about _debloat *)

\* C1: a conditional rule never deletes a matched entry whose kind
\* (symlink / dir / file, by the entry itself) is absent from the rule's
\* delete-set.
C1_KindInDeleteSet == \A r \in removed : r.kind \in r.rm_if

----------------------------------------------------------------------------
(* ModuleBuilder._fix_shebangs                                             *)
(*                                                                         *)
(* A file is a sequence of bytes (0..255).                                 *)

\* TEXT_CHARS
TEXT_CHARS == {7, 8, 9, 10, 12, 13, 27} \cup ((32..255) \ {127})

\* fin.readline(1024): the size limit of the first read
ReadLimit == 1024

NL == 10

\* b"#!/system/bin/python3\n"
python_shebang ==
    <<35, 33, 47, 115, 121, 115, 116, 101, 109, 47, 98, 105, 110, 47,
      112, 121, 116, 104, 111, 110, 51, 10>>

\* b"#!/system/bin/sh\n"
shell_shebang ==
    <<35, 33, 47, 115, 121, 115, 116, 101, 109, 47, 98, 105, 110, 47,
      115, 104, 10>>

\* is_binary(data): some byte of data is outside TEXT_CHARS
is_binary(data) == \E i \in 1..Len(data) : data[i] \notin TEXT_CHARS

\* The index of the first newline of c, 0 when it has none.
FirstNewline(c) ==
    LET at == {i \in 1..Len(c) : c[i] = NL}
    IN  IF at = {} THEN 0 ELSE CHOOSE i \in at : \A j \in at : i <= j

\* fin.readline(size): up to and including the first newline, and at most
\* size bytes.
readline(c, size) ==
    LET nl == FirstNewline(c)
    IN  IF nl # 0 /\ nl <= size THEN SubSeq(c, 1, nl)
        ELSE IF Len(c) <= size THEN c
        ELSE SubSeq(c, 1, size)

\* fin.read() after n bytes were read: the rest of the file
read(c, n) == SubSeq(c, n + 1, Len(c))

(* The two regular expressions, matched from the start of the data (re.match).
   A matcher maps the set of positions reached so far to the set of
   positions reached after its part of the pattern. *)

\* \s of a bytes pattern: [ \t\n\r\f\v]
IsSpace(b) == b \in {32, 9, 10, 13, 12, 11}

\* a literal
Lit(c, P, w) ==
    {p + Len(w) : p \in {q \in P : q + Len(w) - 1 <= Len(c)
                                    /\ SubSeq(c, q, q + Len(w) - 1) = w}}

\* \s*
Spaces0(c, P) ==
    UNION {{q \in p..(Len(c) + 1) : \A i \in p..(q - 1) : IsSpace(c[i])} : p \in P}

\* \s+
Spaces1(c, P) ==
    UNION {{q \in (p + 1)..(Len(c) + 1) : \A i \in p..(q - 1) : IsSpace(c[i])} : p \in P}

\* ^#!\s*/(?:usr/(?:local/)?|)(?:bin|sbin)/(?:env\s+)?   the common head
InterpreterHead(c) ==
    LET p1 == Lit(c, {1}, <<35, 33>>)                          \* #!
        p2 == Spaces0(c, p1)                                   \* \s*
        p3 == Lit(c, p2, <<47>>)                               \* /
        p4 == Lit(c, p3, <<117, 115, 114, 47>>)                \* usr/
        p5 == p4 \cup Lit(c, p4, <<108, 111, 99, 97, 108, 47>>) \* (?:local/)?
        p6 == p5 \cup p3                                       \* |
        p7 == Lit(c, p6, <<98, 105, 110>>)                     \* bin
                \cup Lit(c, p6, <<115, 98, 105, 110>>)         \* sbin
        p8 == Lit(c, p7, <<47>>)                               \* /
        p9 == Spaces1(c, Lit(c, p8, <<101, 110, 118>>))        \* env\s+
    IN  p8 \cup p9

\* shell_shebang_re.match(content): ...(?:sh|bash|dash)
shell_shebang_re(c) ==
    LET h == InterpreterHead(c)
    IN  (Lit(c, h, <<115, 104>>)
           \cup Lit(c, h, <<98, 97, 115, 104>>)
           \cup Lit(c, h, <<100, 97, 115, 104>>)) # {}

\* python_shebang_re.match(content): ...python[0-9]*(?:\.[0-9]+)*
\* (the digits and the version are optional: they do not decide the match)
python_shebang_re(c) ==
    Lit(c, InterpreterHead(c), <<112, 121, 116, 104, 111, 110>>) # {}

\* The bytes _fix_shebangs leaves in a regular file holding c.
FixedContent(c) ==
    LET content == readline(c, ReadLimit)
    IN  IF is_binary(content) THEN c
        ELSE IF shell_shebang_re(content)
             THEN shell_shebang \o read(c, Len(content))
        ELSE IF python_shebang_re(content)
             THEN python_shebang \o read(c, Len(content))
        ELSE c

\* Whether _fix_shebangs writes the file (and logs "Patched").
Rewrites(c) ==
    LET content == readline(c, ReadLimit)
    IN  /\ ~is_binary(content)
        /\ shell_shebang_re(content) \/ python_shebang_re(content)

(* The files of the model: a first line (an interpreter line or not), filler
   bytes up to and beyond the read limit, a newline or none, and a tail. *)

FirstLines ==
    { <<35, 33, 47, 98, 105, 110, 47, 115, 104>>,                 \* #!/bin/sh
      <<35, 33, 32, 47, 117, 115, 114, 47, 98, 105, 110, 47, 101, 110, 118,
        32, 98, 97, 115, 104>>,                                   \* #! /usr/bin/env bash
      <<35, 33, 47, 117, 115, 114, 47, 108, 111, 99, 97, 108, 47, 98, 105,
        110, 47, 112, 121, 116, 104, 111, 110, 51, 46, 49, 51>>,  \* #!/usr/local/bin/python3.13
      <<35, 33, 47, 115, 121, 115, 116, 101, 109, 47, 98, 105, 110, 47,
        115, 104>>,                                               \* #!/system/bin/sh
      <<35, 33, 47, 115, 121, 115, 116, 101, 109, 47, 98, 105, 110, 47,
        112, 121, 116, 104, 111, 110, 51>>,                       \* #!/system/bin/python3
      <<127, 69, 76, 70>>,                                        \* \x7fELF
      <<101, 99, 104, 111>> }                                     \* echo

\* n filler bytes: a blank and then the letter a
Filler(n) == [i \in 1..n |-> IF i = 1 THEN 32 ELSE 97]

\* How many filler bytes follow the interpreter on the first line: none, an
\* argument, and what brings "#!/bin/sh" to 1024 and to 1025 bytes with its
\* newline.
FillerLens == {0, 3, ReadLimit - 10, ReadLimit - 9}

Tails == { <<>>, <<120, 10>>, <<0, 120>> }        \* "", "x\n", "\x00x"

Contents ==
    {l \o Filler(n) \o (IF nl THEN <<NL>> ELSE <<>>) \o t :
        l \in FirstLines, n \in FillerLens, nl \in BOOLEAN, t \in Tails}

BinNames == {"f1", "f2"}

Absent == [kind |-> "none", content |-> <<>>]

\* What may stand beside the file under study: nothing, a directory, a
\* symbolic link to a script, another script.
Neighbours ==
    { Absent,
      [kind |-> "dir", content |-> <<>>],
      [kind |-> "symlink", content |-> <<35, 33, 47, 98, 105, 110, 47, 115, 104, 10>>],
      [kind |-> "file", content |-> <<35, 33, 47, 98, 105, 110, 47, 115, 104, 10, 120, 10>>] }

ShebangInit ==
    /\ \E c \in Contents, n \in Neighbours :
          bin = [f \in BinNames |->
                   IF f = "f1" THEN [kind |-> "file", content |-> c] ELSE n]
    /\ bin0 = bin
    /\ bin1 = bin
    /\ listed = {}
    /\ patched = {}
    /\ spc = "iter"
    /\ srun = 1
    /\ DebloatIdle
    /\ PropIdle
    /\ SourceIdle
    /\ PackageIdle
    /\ WrapperIdle

\* One turn of "for path in prefix_bin.iterdir()".  A path that is not a
\* regular file, or is a symbolic link, is passed over.
FixShebangsFile ==
    /\ spc = "iter"
    /\ \E f \in BinNames \ listed :
        /\ bin[f].kind # "none"
        /\ listed' = listed \cup {f}
        /\ IF bin[f].kind # "file"
           THEN UNCHANGED <<bin, patched>>
           ELSE /\ bin' = [bin EXCEPT ![f].content = FixedContent(bin[f].content)]
                /\ patched' = IF Rewrites(bin[f].content)
                              THEN patched \cup {f} ELSE patched
    /\ UNCHANGED <<bin0, bin1, spc, srun>>
    /\ UNCHANGED notShebang

\* iterdir() is exhausted: _fix_shebangs returns.
FixShebangsReturn ==
    /\ spc = "iter"
    /\ \A f \in BinNames \ listed : bin[f].kind = "none"
    /\ spc' = "done"
    /\ bin1' = IF srun = 1 THEN bin ELSE bin1
    /\ UNCHANGED <<bin, bin0, listed, patched, srun>>
    /\ UNCHANGED notShebang

\* The stage is run a second time on the same prefix.
FixShebangsAgain ==
    /\ spc = "done"
    /\ srun = 1
    /\ srun' = 2
    /\ spc' = "iter"
    /\ listed' = {}
    /\ UNCHANGED <<bin, bin0, bin1, patched>>
    /\ UNCHANGED notShebang

ShebangNext ==
    \/ FixShebangsFile
    \/ FixShebangsReturn
    \/ FixShebangsAgain

SpecShebang == ShebangInit /\ [][ShebangNext]_vars

----------------------------------------------------------------------------
(* Claims about _fix_shebangs *)

\* The first 1024 bytes of a file.
FirstBlock(c) == IF Len(c) <= ReadLimit THEN c ELSE SubSeq(c, 1, ReadLimit)

\* The bytes following the first newline of a file.
AfterFirstLine(c) ==
    IF FirstNewline(c) = 0 THEN <<>> ELSE read(c, FirstNewline(c))

\* C3: the stage never rewrites a file whose first 1024 bytes hold a byte
\* outside the text set, also when that byte lies after the first line.
C3_NoRewriteOfBinary ==
    \A f \in patched : ~is_binary(FirstBlock(bin0[f].content))

\* C4: for every regular file of bin, the stage leaves the bytes after the
\* first line unchanged (also for a first line longer than 1024 bytes), a
\* file that already carries the target shebang is unchanged, and a second
\* run changes nothing.
C4_OnlyFirstLineChanges ==
    \A f \in BinNames :
        (bin0[f].kind = "file") =>
            /\ AfterFirstLine(bin[f].content) = AfterFirstLine(bin0[f].content)
            /\ (readline(bin0[f].content, Len(bin0[f].content))
                   \in {shell_shebang, python_shebang})
                  => (bin[f] = bin0[f])
            /\ (srun = 2) => (bin[f] = bin1[f])

----------------------------------------------------------------------------
(* parse_module_prop and format_module_prop                                *)
(*                                                                         *)
(* A text is a sequence of characters.                                     *)

\* Bound of the model: the length of module.prop in characters.
MaxPropLen == 6

\* The characters of the model: a letter, '=', '#', a blank and a newline.
Chars == {"k", "=", "#", " ", "\n"}

\* str.strip() removes these from both ends.
Whitespace == {" ", "\n"}

\* "for line in fin": the lines of a text, each with its newline (the last
\* one may have none).
RECURSIVE SplitLines(_)
SplitLines(t) ==
    IF t = <<>> THEN <<>>
    ELSE LET at == {i \in 1..Len(t) : t[i] = "\n"}
             nl == IF at = {} THEN Len(t)
                   ELSE CHOOSE i \in at : \A j \in at : i <= j
         IN  <<SubSeq(t, 1, nl)>> \o SplitLines(SubSeq(t, nl + 1, Len(t)))

\* str.lstrip()
RECURSIVE LStrip(_)
LStrip(l) ==
    IF l # <<>> /\ Head(l) \in Whitespace THEN LStrip(Tail(l)) ELSE l

\* str.rstrip()
RECURSIVE RStrip(_)
RStrip(l) ==
    IF l # <<>> /\ Last(l) \in Whitespace THEN RStrip(Front(l)) ELSE l

StripLeftOnly(l) == LStrip(l)

\* line.strip()
Strip(l) == RStrip(LStrip(l))

\* new_line.partition("="): <<before, after>> of the first '=';
\* <<new_line, "">> when there is none.
Partition(l) ==
    LET at == {i \in 1..Len(l) : l[i] = "="}
        eq == IF at = {} THEN 0 ELSE CHOOSE i \in at : \A j \in at : i <= j
    IN  IF eq = 0 THEN <<l, <<>> >>
        ELSE <<SubSeq(l, 1, eq - 1), SubSeq(l, eq + 1, Len(l))>>

\* props[key] = value: a key already present keeps its place.
DictSet(d, key, value) ==
    IF \E i \in 1..Len(d) : d[i][1] = key
    THEN [i \in 1..Len(d) |-> IF d[i][1] = key THEN <<key, value>> ELSE d[i]]
    ELSE Append(d, <<key, value>>)

\* The loop of parse_module_prop over the lines that are left.
RECURSIVE ParseLines(_, _)
ParseLines(lines, d) ==
    IF lines = <<>> THEN d
    ELSE LET new_line == Strip(Head(lines))
             parts == Partition(new_line)
         IN  IF new_line # <<>> /\ Head(new_line) = "#"
             THEN ParseLines(Tail(lines), d)
             ELSE ParseLines(Tail(lines), DictSet(d, parts[1], parts[2]))

parse_module_prop(text) == ParseLines(SplitLines(text), <<>>)

\* format_module_prop: "k=v\n" for every item, in order.
RECURSIVE format_module_prop(_)
format_module_prop(d) ==
    IF d = <<>> THEN <<>>
    ELSE Head(d)[1] \o <<"=">> \o Head(d)[2] \o <<"\n">>
           \o format_module_prop(Tail(d))

PropInit ==
    /\ module_prop \in SeqUpTo(Chars, MaxPropLen)
    /\ props = <<>>
    /\ prop_text = <<>>
    /\ ppc = "parse"
    /\ DebloatIdle
    /\ ShebangIdle
    /\ SourceIdle
    /\ PackageIdle
    /\ WrapperIdle

\* props = parse_module_prop()
ParseModuleProp ==
    /\ ppc = "parse"
    /\ props' = parse_module_prop(module_prop)
    /\ ppc' = "format"
    /\ UNCHANGED <<module_prop, prop_text>>
    /\ UNCHANGED notProp

\* format_module_prop(props), no field modified
FormatModuleProp ==
    /\ ppc = "format"
    /\ prop_text' = format_module_prop(props)
    /\ ppc' = "done"
    /\ UNCHANGED <<module_prop, props>>
    /\ UNCHANGED notProp

PropNext ==
    \/ ParseModuleProp
    \/ FormatModuleProp

SpecProp == PropInit /\ [][PropNext]_vars

----------------------------------------------------------------------------
(* Claims about the metadata file *)

\* C5 as stated: for every properties file, parse then format gives back
\* the bytes of the file.
C5_RoundTripAnyFile == (ppc = "done") => (prop_text = module_prop)

\* A file of "key=value" lines only: every line ends with a newline, holds
\* an '=', has no blank at either end, does not start with '#', and no key
\* comes twice.
PlainProp(text) ==
    LET lines == SplitLines(text)
        body(i) == Front(lines[i])
    IN  /\ \A i \in 1..Len(lines) :
              /\ Last(lines[i]) = "\n"
              /\ Strip(body(i)) = body(i)
              /\ \E j \in 1..Len(body(i)) : body(i)[j] = "="
              /\ Head(body(i)) # "#"
        /\ \A i, j \in 1..Len(lines) :
              (Partition(body(i))[1] = Partition(body(j))[1]) => (i = j)

\* C5 (amended): for every properties file of plain "key=value" lines with
\* distinct keys, parse then format gives back the bytes of the file, keys
\* in the order read.
C5_RoundTripPlainFile ==
    (ppc = "done" /\ PlainProp(module_prop)) => (prop_text = module_prop)

\* C5 witness: a plain file of two keys has been parsed and formatted.
C5_Witness ==
    /\ ppc = "done"
    /\ PlainProp(module_prop)
    /\ Len(props) = 2
    /\ props[1][2] # <<>>

----------------------------------------------------------------------------
(* main, run and CPythonBuilder.build: the source pipeline                 *)

\* Bound of the model: the number of hosts in config.build_hosts.
MaxHosts == 2

\* Bound of the model: the number of entries patches/*.patch yields.
MaxPatches == 2

\* The host triplets of the model: three the architecture mapping knows,
\* one it does not.
HostTriplets ==
    {"aarch64-linux-android", "arm-linux-androideabi",
     "armv7a-linux-androideabi", "riscv64-linux-android"}

\* Lists of distinct hosts, at most n long.
HostLists(n) ==
    {l \in SeqUpTo(HostTriplets, n) :
        \A i, j \in 1..Len(l) : (l[i] = l[j]) => (i = j)}

\* The exit codes of an external command.
ExitCodes == {0, 1}

\* What patch may print: nothing of note, or the line the code looks for.
PatchOutputs == {"", "Reversed (or previously applied) patch detected!"}

\* One command as logged: also tarfile's extractall, which is no process.
\* env: "build_env" when run() is given env=env, "parent" when it is not
\* (the child inherits the process environment).
Command(cmd, host, env, rc, out) ==
    [cmd |-> cmd, host |-> host, env |-> env, rc |-> rc, out |-> out]

\* run(): the default of check when the caller passes none.
run_check_never == FALSE

run_check_default == TRUE

\* subprocess.run(command, check=check): whether it raises CalledProcessError.
Raises(check, rc) == check /\ rc # 0

CalledProcessError(stage, rc, out) ==
    [kind |-> "CalledProcessError", stage |-> stage, returncode |-> rc,
     output |-> out]

BuilderError(stage) ==
    [kind |-> "BuilderError", stage |-> stage, returncode |-> 0, output |-> "none"]

\* Build directories the file system can hold: the setup output and the
\* host prefixes lie inside the extracted source tree.
DiskStates(hs) ==
    {d \in [tarball : BOOLEAN, source_dir : BOOLEAN, cross_build : BOOLEAN,
            prefixes : SUBSET {hs[i] : i \in 1..Len(hs)}] :
        (d.cross_build \/ d.prefixes # {}) => d.source_dir}

SourceInit ==
    /\ build_hosts \in HostLists(MaxHosts)
    /\ apply_patches \in BOOLEAN
    /\ disk \in DiskStates(build_hosts)
    /\ disk0 = disk
    /\ bpc = "download"
    /\ host_i = 1
    /\ patch_n = 0
    /\ cmds = <<>>
    /\ error = NoError
    /\ DebloatIdle
    /\ ShebangIdle
    /\ PropIdle
    /\ PackageIdle
    /\ WrapperIdle

\* A checked command failed: the exception leaves build() and main().
Fail(stage, rc, out) ==
    /\ bpc' = "failed"
    /\ error' = CalledProcessError(stage, rc, out)

\* _download: the tarball exists, nothing is fetched.
DownloadSkip ==
    /\ bpc = "download"
    /\ disk.tarball
    /\ bpc' = "extract"
    /\ UNCHANGED <<build_hosts, apply_patches, disk, disk0, host_i, patch_n, cmds, error>>
    /\ UNCHANGED notSource

\* _download: run("curl", ...)
DownloadRun ==
    /\ bpc = "download"
    /\ ~disk.tarball
    /\ \E rc \in ExitCodes :
        /\ cmds' = Append(cmds, Command("curl", "", "parent", rc, ""))
        /\ IF Raises(run_check_default, rc)
           THEN Fail("download", rc, "") /\ UNCHANGED disk
           ELSE /\ disk' = [disk EXCEPT !.tarball = TRUE]
                /\ bpc' = "extract"
                /\ UNCHANGED error
    /\ UNCHANGED <<build_hosts, apply_patches, disk0, host_i, patch_n>>
    /\ UNCHANGED notSource

\* Where build() goes after _extract.
AfterExtract == IF apply_patches THEN "patches" ELSE "toolchain"

\* _extract: the source directory exists, nothing is extracted.
ExtractSkip ==
    /\ bpc = "extract"
    /\ disk.source_dir
    /\ bpc' = AfterExtract
    /\ UNCHANGED <<build_hosts, apply_patches, disk, disk0, host_i, patch_n, cmds, error>>
    /\ UNCHANGED notSource

\* _extract: tar.extractall(BUILD_DIR)
ExtractRun ==
    /\ bpc = "extract"
    /\ ~disk.source_dir
    /\ cmds' = Append(cmds, Command("extractall", "", "parent", 0, ""))
    /\ disk' = [disk EXCEPT !.source_dir = TRUE]
    /\ bpc' = AfterExtract
    /\ UNCHANGED <<build_hosts, apply_patches, disk0, host_i, patch_n, error>>
    /\ UNCHANGED notSource

\* _apply_patches: an entry of patches/*.patch that is no regular file.
PatchNotAFile ==
    /\ bpc = "patches"
    /\ patch_n < MaxPatches
    /\ patch_n' = patch_n + 1
    /\ UNCHANGED <<build_hosts, apply_patches, disk, disk0, bpc, host_i, cmds, error>>
    /\ UNCHANGED notSource

\* Whether _apply_patches goes on to the next patch after this result.
PatchAcceptedExitZeroOnly(rc, out) == rc = 0

PatchAccepted(rc, out) ==
    \/ rc = 0
    \/ out = "Reversed (or previously applied) patch detected!"

\* _apply_patches: run("patch", ..., capture_output=True, check=False)
ApplyPatch ==
    /\ bpc = "patches"
    /\ patch_n < MaxPatches
    /\ \E rc \in ExitCodes, out \in PatchOutputs :
        /\ cmds' = Append(cmds, Command("patch", "", "parent", rc, out))
        /\ IF Raises(FALSE, rc) \/ ~PatchAccepted(rc, out)
           THEN Fail("patches", rc, out) /\ UNCHANGED patch_n
           ELSE /\ patch_n' = patch_n + 1
                /\ UNCHANGED <<bpc, error>>
    /\ UNCHANGED <<build_hosts, apply_patches, disk, disk0, host_i>>
    /\ UNCHANGED notSource

\* _apply_patches: the glob of patches/ is exhausted.
PatchesEnd ==
    /\ bpc = "patches"
    /\ bpc' = "toolchain"
    /\ UNCHANGED <<build_hosts, apply_patches, disk, disk0, host_i, patch_n, cmds, error>>
    /\ UNCHANGED notSource

\* _find_ndk_toolchain: the version is parsed and a toolchain is found, or
\* BuilderError is raised.
FindNdkToolchain ==
    /\ bpc = "toolchain"
    /\ \E found \in BOOLEAN :
        IF found
        THEN bpc' = "env" /\ UNCHANGED error
        ELSE bpc' = "failed" /\ error' = BuilderError("toolchain")
    /\ UNCHANGED <<build_hosts, apply_patches, disk, disk0, host_i, patch_n, cmds>>
    /\ UNCHANGED notSource

\* _create_env
CreateEnv ==
    /\ bpc = "env"
    /\ bpc' = "setup"
    /\ UNCHANGED <<build_hosts, apply_patches, disk, disk0, host_i, patch_n, cmds, error>>
    /\ UNCHANGED notSource

\* _build_hosts: cross-build/build exists, the setup is skipped.
SetupSkip ==
    /\ bpc = "setup"
    /\ disk.cross_build
    /\ bpc' = "hosts"
    /\ UNCHANGED <<build_hosts, apply_patches, disk, disk0, host_i, patch_n, cmds, error>>
    /\ UNCHANGED notSource

\* _build_hosts: run("./android.py", "configure-build")
ConfigureBuild ==
    /\ bpc = "setup"
    /\ ~disk.cross_build
    /\ \E rc \in ExitCodes :
        /\ cmds' = Append(cmds, Command("configure-build", "", "parent", rc, ""))
        /\ IF Raises(run_check_default, rc)
           THEN Fail("setup", rc, "")
           ELSE bpc' = "make_build" /\ UNCHANGED error
    /\ UNCHANGED <<build_hosts, apply_patches, disk, disk0, host_i, patch_n>>
    /\ UNCHANGED notSource

\* _build_hosts: run("./android.py", "make-build")
MakeBuild ==
    /\ bpc = "make_build"
    /\ \E rc \in ExitCodes :
        /\ cmds' = Append(cmds, Command("make-build", "", "parent", rc, ""))
        /\ IF Raises(run_check_default, rc)
           THEN Fail("setup", rc, "") /\ UNCHANGED disk
           ELSE /\ disk' = [disk EXCEPT !.cross_build = TRUE]
                /\ bpc' = "hosts"
                /\ UNCHANGED error
    /\ UNCHANGED <<build_hosts, apply_patches, disk0, host_i, patch_n>>
    /\ UNCHANGED notSource

\* (source_dir / "cross-build" / host / "prefix").exists()
PrefixNeverExists(host) == FALSE

PrefixExists(host) == host \in disk.prefixes

\* _build_hosts: the prefix of the host exists, the host is skipped.
HostSkip ==
    /\ bpc = "hosts"
    /\ host_i <= Len(build_hosts)
    /\ PrefixExists(build_hosts[host_i])
    /\ host_i' = host_i + 1
    /\ UNCHANGED <<build_hosts, apply_patches, disk, disk0, bpc, patch_n, cmds, error>>
    /\ UNCHANGED notSource

\* _build_hosts: run("./android.py", "configure-host", host, ..., env=env)
ConfigureHost ==
    /\ bpc = "hosts"
    /\ host_i <= Len(build_hosts)
    /\ ~PrefixExists(build_hosts[host_i])
    /\ \E rc \in ExitCodes :
        /\ cmds' = Append(cmds, Command("configure-host", build_hosts[host_i],
                                        "build_env", rc, ""))
        /\ IF Raises(run_check_default, rc)
           THEN Fail("hosts", rc, "")
           ELSE bpc' = "make_host" /\ UNCHANGED error
    /\ UNCHANGED <<build_hosts, apply_patches, disk, disk0, host_i, patch_n>>
    /\ UNCHANGED notSource

\* _build_hosts: run("./android.py", "make-host", host); it installs the
\* prefix of the host.
MakeHost ==
    /\ bpc = "make_host"
    /\ \E rc \in ExitCodes :
        /\ cmds' = Append(cmds, Command("make-host", build_hosts[host_i],
                                        "parent", rc, ""))
        /\ IF Raises(run_check_default, rc)
           THEN Fail("hosts", rc, "") /\ UNCHANGED <<disk, host_i>>
           ELSE /\ disk' = [disk EXCEPT !.prefixes = @ \cup {build_hosts[host_i]}]
                /\ host_i' = host_i + 1
                /\ bpc' = "hosts"
                /\ UNCHANGED error
    /\ UNCHANGED <<build_hosts, apply_patches, disk0, patch_n>>
    /\ UNCHANGED notSource

\* build() returns its result; main() starts ModuleBuilder(...).build().
StartPackaging ==
    /\ bpc = "hosts"
    /\ host_i > Len(build_hosts)
    /\ bpc' = "packaging"
    /\ UNCHANGED <<build_hosts, apply_patches, disk, disk0, host_i, patch_n, cmds, error>>
    /\ UNCHANGED notSource

SourceNext ==
    \/ DownloadSkip
    \/ DownloadRun
    \/ ExtractSkip
    \/ ExtractRun
    \/ PatchNotAFile
    \/ ApplyPatch
    \/ PatchesEnd
    \/ FindNdkToolchain
    \/ CreateEnv
    \/ SetupSkip
    \/ ConfigureBuild
    \/ MakeBuild
    \/ HostSkip
    \/ ConfigureHost
    \/ MakeHost
    \/ StartPackaging

SpecSource == SourceInit /\ [][SourceNext]_vars

----------------------------------------------------------------------------
(* Claims about the source pipeline *)

HostCommands == {"configure-host", "make-host"}

\* The place of a host in config.build_hosts.
HostIndex(host) == CHOOSE i \in 1..Len(build_hosts) : build_hosts[i] = host

\* The run started on a build directory that holds the source archive, the
\* extracted tree with its build-setup output, and a host's install prefix.
Resumed ==
    /\ disk0.tarball
    /\ disk0.source_dir
    /\ disk0.cross_build
    /\ disk0.prefixes # {}

\* C7: a run resumed on such a build directory issues no download command,
\* performs no extraction, issues no configure-host or make-host for a host
\* whose prefix existed, and its first configure-host is for the first host
\* in configured order whose prefix did not exist.
C7_ResumeSkipsFinishedWork ==
    Resumed =>
        \A k \in 1..Len(cmds) :
            /\ cmds[k].cmd \notin {"curl", "extractall"}
            /\ (cmds[k].cmd \in HostCommands) => (cmds[k].host \notin disk0.prefixes)
            /\ (/\ cmds[k].cmd = "configure-host"
                /\ \A j \in 1..(k - 1) : cmds[j].cmd # "configure-host")
                 => /\ cmds[k].host \notin disk0.prefixes
                    /\ \A i \in 1..(HostIndex(cmds[k].host) - 1) :
                          build_hosts[i] \in disk0.prefixes

\* C7 witness: a resumed run whose first host was already built has issued
\* configure-host for the second and reached the packaging pipeline.
C7_Witness ==
    /\ Resumed
    /\ Len(build_hosts) = 2
    /\ build_hosts[1] \in disk0.prefixes
    /\ \E k \in 1..Len(cmds) :
          cmds[k].cmd = "configure-host" /\ cmds[k].host = build_hosts[2]
    /\ bpc = "packaging"

\* C8: host commands are issued in the configured order of the hosts, and a
\* configure-host or make-host that exits non-zero is the last command of
\* the run: nothing is issued for a later host and packaging never starts.
C8_HostFailureAborts ==
    /\ \A k, l \in 1..Len(cmds) :
          (k < l /\ cmds[k].cmd \in HostCommands /\ cmds[l].cmd \in HostCommands)
              => HostIndex(cmds[k].host) <= HostIndex(cmds[l].host)
    /\ \A k \in 1..Len(cmds) :
          (cmds[k].cmd \in HostCommands /\ cmds[k].rc # 0)
              => (k = Len(cmds) /\ bpc = "failed")

\* C8 witness: make-host failed for the first of two hosts and the run is
\* over.
C8_Witness ==
    /\ Len(build_hosts) = 2
    /\ bpc = "failed"
    /\ \E k \in 1..Len(cmds) :
          /\ cmds[k].cmd = "make-host"
          /\ cmds[k].host = build_hosts[1]
          /\ cmds[k].rc # 0

\* C9: a patch that exits 0, or exits non-zero and reports "Reversed (or
\* previously applied) patch detected!", does not end the run; any other
\* non-zero exit is the last command of the run, which fails with a
\* CalledProcessError carrying the exit code and the captured output.
C9_PatchResults ==
    \A k \in 1..Len(cmds) :
        (cmds[k].cmd = "patch") =>
            IF cmds[k].rc = 0
                 \/ cmds[k].out = "Reversed (or previously applied) patch detected!"
            THEN ~(k = Len(cmds) /\ bpc = "failed" /\ error.stage = "patches")
            ELSE /\ k = Len(cmds)
                 /\ bpc = "failed"
                 /\ error = CalledProcessError("patches", cmds[k].rc, cmds[k].out)

\* C9 witness: a patch reported as already applied exited non-zero, and the
\* next patch was applied after it.
C9_Witness ==
    \E k, l \in 1..Len(cmds) :
        /\ k < l
        /\ cmds[k].cmd = "patch"
        /\ cmds[k].rc # 0
        /\ cmds[k].out = "Reversed (or previously applied) patch detected!"
        /\ cmds[l].cmd = "patch"

----------------------------------------------------------------------------
\* ModuleBuilder.build: the packaging pipeline.  What _debloat and
\* _fix_shebangs do to a prefix is the subject of SpecDebloat and
\* SpecShebang; here a prefix is what the strip glob finds in it, a tarball
\* is the host whose prefix it holds, and the archive is its entry list.

\* ModuleBuilder.arch_mapping
arch_mapping ==
    ("aarch64-linux-android" :> "arm64") @@
    ("arm-linux-androideabi" :> "arm") @@
    ("armv7a-linux-androideabi" :> "arm") @@
    ("i686-linux-android" :> "x86") @@
    ("x86_64-linux-android" :> "x64")

\* ModuleBuilder.compressed_name.format(magisk_arch)
compressed_name(magisk_arch) == "cpython-" \o magisk_arch \o ".tar.xz"

\* A dictionary lookup of a key that is missing.
KeyError(stage) ==
    [kind |-> "KeyError", stage |-> stage, returncode |-> 0, output |-> "none"]

\* _strip: check=False is passed to run().
strip_check_fatal == TRUE

strip_check == FALSE

\* The paths of a prefix the strip patterns "bin/*", "lib/**/*.{so,a}" match.
StripPaths == {"bin/python3", "lib/libpython3.so"}

\* What a matched path is: a regular file, a symlink to one, a directory.
StripKinds == {"file", "symlink", "dir"}

\* path.is_file() follows a symlink; path.is_symlink() does not.
strip_is_file(kind) == kind \in {"file", "symlink"}

strip_is_symlink(kind) == kind = "symlink"

\* One llvm-strip call as logged.
StripCall(host, path, rc) == [host |-> host, path |-> path, rc |-> rc]

\* A file or a directory on disk that _package_module is given: the files
\* of a directory are the relative paths entry.walk() yields.
Entry(name, kind, files) == [name |-> name, kind |-> kind, files |-> files]

\* MODULE_DIR: the module sources, module.prop among them.
MODULE_DIR == Entry("module", "dir", <<"module.prop", "update-bin.py">>)

\* BUILD_DIR / "cacert.pem"
cacert_path == Entry("cacert.pem", "file", <<>>)

\* config.include as configured: nothing, a file named module.prop, a
\* directory that holds one.
IncludeChoices ==
    {<<>>,
     <<Entry("module.prop", "file", <<>>)>>,
     <<Entry("extras", "dir", <<"module.prop", "README">>)>>}

\* The key build() adds to props, and ModuleBuilder.description.
DescriptionKey == <<"description">>

description == <<"CPython {} for Android">>

\* config.name: a string.Template, as the set of the keys it references.
NameTemplates == {{<<"k">>}, {<<"k">>, DescriptionKey}}

\* module.prop texts of the packaging model: "k=k\n" and "#k\nkk=\n".
PackageProps ==
    {<<"k", "=", "k", "\n">>, <<"#", "k", "\n", "k", "k", "=", "\n">>}

\* The keys of a parsed module.prop.
Keys(d) == {d[i][1] : i \in 1..Len(d)}

\* Template.safe_substitute leaves an unknown placeholder in place.
safe_substitute_raises(template, d) == FALSE

\* self.config.name.substitute(props) raises KeyError when the template
\* references a key props does not hold.
substitute_raises(template, d) == ~(template \subseteq Keys(d))

PackageInit ==
    /\ hosts \in HostLists(MaxHosts)
    /\ config \in [debloat : BOOLEAN, fix_shebangs : BOOLEAN, strip : BOOLEAN,
                   name : NameTemplates]
    /\ include \in IncludeChoices
    /\ cacert_exists \in BOOLEAN
    /\ module_prop \in PackageProps
    /\ props = <<>>
    /\ prop_text = <<>>
    /\ ppc = "idle"
    /\ mpc = "cacert"
    /\ mhost_i = 1
    /\ matched = <<>>
    /\ visited = {}
    /\ stripped = <<>>
    /\ strip_failed = {}
    /\ tarballs = <<>>
    /\ tar_files = {}
    /\ zip_created = FALSE
    /\ zip_entries = <<>>
    /\ zip_i = 1
    /\ mlog = <<>>
    /\ merror = NoError
    /\ DebloatIdle
    /\ ShebangIdle
    /\ SourceIdle
    /\ WrapperIdle

\* An exception leaves ModuleBuilder.build() and main().
PackageFail(err) ==
    /\ mpc' = "failed"
    /\ merror' = err

\* _download_and_include_cacert: cacert.pem exists, nothing is fetched.
CacertSkip ==
    /\ mpc = "cacert"
    /\ cacert_exists
    /\ include' = Append(include, cacert_path)
    /\ mpc' = "host"
    /\ UNCHANGED <<strip_failed, hosts, config, cacert_exists, mhost_i,
                   matched, visited,
                   stripped, tarballs, tar_files, zip_created, zip_entries,
                   zip_i, mlog, merror>>
    /\ UNCHANGED notPackage

\* _download_and_include_cacert: run("curl", ...)
CacertDownload ==
    /\ mpc = "cacert"
    /\ ~cacert_exists
    /\ \E rc \in ExitCodes :
        /\ mlog' = Append(mlog, <<"curl", "cacert.pem">>)
        /\ IF Raises(run_check_default, rc)
           THEN /\ PackageFail(CalledProcessError("cacert", rc, ""))
                /\ UNCHANGED <<include, cacert_exists>>
           ELSE /\ cacert_exists' = TRUE
                /\ include' = Append(include, cacert_path)
                /\ mpc' = "host"
                /\ UNCHANGED merror
    /\ UNCHANGED <<strip_failed, hosts, config, mhost_i, matched, visited,
                   stripped,
                   tarballs, tar_files, zip_created, zip_entries, zip_i>>
    /\ UNCHANGED notPackage

\* build(): if self.config.debloat: self._debloat(prefix)
DebloatStage ==
    /\ mpc = "host"
    /\ mhost_i <= Len(hosts)
    /\ mlog' = IF config.debloat
               THEN Append(mlog, <<"debloat", hosts[mhost_i]>>)
               ELSE mlog
    /\ mpc' = "fix_shebangs"
    /\ UNCHANGED <<strip_failed, hosts, config, include, cacert_exists,
                   mhost_i, matched,
                   visited, stripped, tarballs, tar_files, zip_created,
                   zip_entries, zip_i, merror>>
    /\ UNCHANGED notPackage

\* build(): if self.config.fix_shebangs: self._fix_shebangs(prefix)
FixShebangsStage ==
    /\ mpc = "fix_shebangs"
    /\ mlog' = IF config.fix_shebangs
               THEN Append(mlog, <<"fix_shebangs", hosts[mhost_i]>>)
               ELSE mlog
    /\ mpc' = "strip"
    /\ UNCHANGED <<strip_failed, hosts, config, include, cacert_exists,
                   mhost_i, matched,
                   visited, stripped, tarballs, tar_files, zip_created,
                   zip_entries, zip_i, merror>>
    /\ UNCHANGED notPackage

\* build(): config.strip is off, _strip is not called.
StripOff ==
    /\ mpc = "strip"
    /\ ~config.strip
    /\ mpc' = "compress"
    /\ UNCHANGED <<strip_failed, hosts, config, include, cacert_exists,
                   mhost_i, matched,
                   visited, stripped, tarballs, tar_files, zip_created,
                   zip_entries, zip_i, mlog, merror>>
    /\ UNCHANGED notPackage

\* _strip: the glob over the prefix starts; what it matches in this prefix.
StripStart ==
    /\ mpc = "strip"
    /\ config.strip
    /\ matched' \in [StripPaths -> StripKinds]
    /\ visited' = {}
    /\ stripped' = <<>>
    /\ mlog' = Append(mlog, <<"strip", hosts[mhost_i]>>)
    /\ mpc' = "stripping"
    /\ UNCHANGED <<strip_failed, hosts, config, include, cacert_exists,
                   mhost_i, tarballs, tar_files, zip_created, zip_entries,
                   zip_i, merror>>
    /\ UNCHANGED notPackage

\* _strip: if not path.is_file() or path.is_symlink(): continue
StripContinue ==
    /\ mpc = "stripping"
    /\ \E path \in StripPaths \ visited :
        /\ ~strip_is_file(matched[path]) \/ strip_is_symlink(matched[path])
        /\ visited' = visited \cup {path}
    /\ UNCHANGED <<strip_failed, hosts, config, include, cacert_exists, mpc,
                   mhost_i, matched, stripped, tarballs, tar_files, zip_created,
                   zip_entries, zip_i, mlog, merror>>
    /\ UNCHANGED notPackage

\* _strip: run(llvm_strip, ..., path, check=False, ...)
StripFile ==
    /\ mpc = "stripping"
    /\ \E path \in StripPaths \ visited, rc \in ExitCodes :
        /\ strip_is_file(matched[path]) /\ ~strip_is_symlink(matched[path])
        /\ stripped' = Append(stripped, StripCall(hosts[mhost_i], path, rc))
        /\ strip_failed' = IF rc # 0 THEN strip_failed \cup {hosts[mhost_i]}
                                     ELSE strip_failed
        /\ IF Raises(strip_check, rc)
           THEN /\ PackageFail(CalledProcessError("strip", rc, ""))
                /\ UNCHANGED visited
           ELSE /\ visited' = visited \cup {path}
                /\ UNCHANGED <<mpc, merror>>
    /\ UNCHANGED <<hosts, config, include, cacert_exists, mhost_i, matched,
                   tarballs, tar_files, zip_created, zip_entries, zip_i, mlog>>
    /\ UNCHANGED notPackage

\* _strip: the glob is exhausted.
StripEnd ==
    /\ mpc = "stripping"
    /\ visited = StripPaths
    /\ mpc' = "compress"
    /\ UNCHANGED <<strip_failed, hosts, config, include, cacert_exists,
                   mhost_i, matched,
                   visited, stripped, tarballs, tar_files, zip_created,
                   zip_entries, zip_i, mlog, merror>>
    /\ UNCHANGED notPackage

\* tarball = self._compress(prefix, host); tarballs.append(tarball)
Compress ==
    /\ mpc = "compress"
    /\ LET host == hosts[mhost_i]
       IN  /\ mlog' = Append(mlog, <<"compress", host>>)
           /\ IF host \notin DOMAIN arch_mapping
              THEN /\ PackageFail(KeyError("compress"))
                   /\ UNCHANGED <<tarballs, tar_files, mhost_i>>
              ELSE LET tarball_path == compressed_name(arch_mapping[host])
                   IN  /\ tar_files' =
                             {t \in tar_files : t[1] # tarball_path}
                                 \cup {<<tarball_path, host>>}
                       /\ tarballs' = Append(tarballs, tarball_path)
                       /\ mhost_i' = mhost_i + 1
                       /\ mpc' = "host"
                       /\ UNCHANGED merror
    /\ UNCHANGED <<strip_failed, hosts, config, include, cacert_exists,
                   matched, visited,
                   stripped, zip_created, zip_entries, zip_i>>
    /\ UNCHANGED notPackage

\* One entry of the output archive: its name and where its bytes come from.
ZipEntry(name, content) == [name |-> name, content |-> content]

\* The includes placed before the tarballs.
PackageSourcesIncludeFirst ==
    <<MODULE_DIR>>
        \o include
        \o [i \in 1..Len(tarballs) |-> Entry(tarballs[i], "file", <<>>)]

\* (MODULE_DIR, *tarballs, *self.config.include)
PackageSources ==
    <<MODULE_DIR>>
        \o [i \in 1..Len(tarballs) |-> Entry(tarballs[i], "file", <<>>)]
        \o include

\* What a file on disk holds: a tarball holds the prefix of the host that
\* wrote it last, any other file is itself.
ContentOf(entry) ==
    IF \E t \in tar_files : t[1] = entry.name
    THEN <<"prefix", (CHOOSE t \in tar_files : t[1] = entry.name)[2]>>
    ELSE <<"file", entry.name>>

\* The walk of a directory: every file but those named module.prop, under
\* its path relative to the directory.
RECURSIVE WalkEntries(_, _)
WalkEntries(entry, files) ==
    IF files = <<>> THEN <<>>
    ELSE (IF Head(files) # "module.prop"
          THEN <<ZipEntry(Head(files), <<entry.name, Head(files)>>)>>
          ELSE <<>>)
         \o WalkEntries(entry, Tail(files))

\* The body of the loop of _package_module for one entry.
EntriesOf(entry) ==
    IF entry.kind = "file"
    THEN <<ZipEntry(entry.name, ContentOf(entry))>>
    ELSE WalkEntries(entry, entry.files)

\* _package_module: props, the archive name, ZipFile(zip_path, "w") and
\* zout.writestr("module.prop", format_module_prop(props))
PackageOpen ==
    /\ mpc = "host"
    /\ mhost_i > Len(hosts)
    /\ mlog' = Append(mlog, <<"package", "">>)
    /\ LET parsed == DictSet(parse_module_prop(module_prop), DescriptionKey,
                             description)
       IN  /\ props' = parsed
           /\ IF substitute_raises(config.name, parsed)
              THEN /\ PackageFail(KeyError("package"))
                   /\ UNCHANGED <<zip_created, zip_entries, prop_text>>
              ELSE /\ zip_created' = TRUE
                   /\ prop_text' = format_module_prop(parsed)
                   /\ zip_entries' = <<ZipEntry("module.prop", <<"generated", "module.prop">>)>>
                   /\ mpc' = "entries"
                   /\ UNCHANGED merror
    /\ UNCHANGED <<strip_failed, hosts, config, include, cacert_exists,
                   mhost_i, matched,
                   visited, stripped, tarballs, tar_files, zip_i>>
    /\ UNCHANGED <<debloatVars, shebangVars, sourceVars, wrapperVars,
                   module_prop, ppc>>

\* _package_module: one entry of (MODULE_DIR, *tarballs, *include) is added.
PackageEntry ==
    /\ mpc = "entries"
    /\ zip_i <= Len(PackageSources)
    /\ zip_entries' = zip_entries \o EntriesOf(PackageSources[zip_i])
    /\ zip_i' = zip_i + 1
    /\ UNCHANGED <<strip_failed, hosts, config, include, cacert_exists, mpc, mhost_i,
                   matched, visited, stripped, tarballs, tar_files,
                   zip_created, mlog, merror>>
    /\ UNCHANGED notPackage

\* _package_module: the archive is closed, build() returns.
PackageClose ==
    /\ mpc = "entries"
    /\ zip_i > Len(PackageSources)
    /\ mpc' = "done"
    /\ UNCHANGED <<strip_failed, hosts, config, include, cacert_exists,
                   mhost_i, matched,
                   visited, stripped, tarballs, tar_files, zip_created,
                   zip_entries, zip_i, mlog, merror>>
    /\ UNCHANGED notPackage

PackageNext ==
    \/ CacertSkip
    \/ CacertDownload
    \/ DebloatStage
    \/ FixShebangsStage
    \/ StripOff
    \/ StripStart
    \/ StripContinue
    \/ StripFile
    \/ StripEnd
    \/ Compress
    \/ PackageOpen
    \/ PackageEntry
    \/ PackageClose

SpecPackage == PackageInit /\ [][PackageNext]_vars

\* Some configured host is no key of the architecture mapping.
UnmappedHost == \E i \in 1..Len(hosts) : hosts[i] \notin DOMAIN arch_mapping

\* C6: when the host list holds a triplet the architecture mapping does not
\* know, the run writes no tarball (none for the unmapped host, none for the
\* hosts before it), never opens the output archive, never completes, and
\* the failure of the compress stage is a BuilderError.
C6_UnmappedHostNoTarball ==
    UnmappedHost =>
        /\ tar_files = {}
        /\ ~zip_created
        /\ mpc # "done"
        /\ (mpc = "failed" /\ merror.stage = "compress")
               => merror.kind = "BuilderError"

\* The regular, non-symlink files among the matches of the strip glob.
RegularMatched ==
    {path \in StripPaths :
        strip_is_file(matched[path]) /\ ~strip_is_symlink(matched[path])}

\* The files of the current prefix llvm-strip was invoked on.
StrippedPaths == {stripped[k].path : k \in 1..Len(stripped)}

\* _compress was called for the host.
CompressStarted(host) ==
    \E k \in 1..Len(mlog) : mlog[k] = <<"compress", host>>

\* C10: no exit code of llvm-strip ends the run.  While the strip loop runs,
\* llvm-strip has been invoked on every regular non-symlink file the glob has
\* yielded, whatever the earlier calls returned; when the loop is over it
\* has been invoked on all of them; a host with a failed call is still
\* compressed, and a run that completes holds its tarball in the archive.
C10_StripFailureNotFatal ==
    /\ merror.stage # "strip"
    /\ mpc = "stripping" => StrippedPaths = RegularMatched \cap visited
    /\ (mpc = "compress" /\ config.strip) => StrippedPaths = RegularMatched
    /\ \A i \in 1..Len(hosts) :
           (/\ hosts[i] \in strip_failed
            /\ mhost_i > i \/ (mhost_i = i /\ mpc = "failed"))
               => CompressStarted(hosts[i])
    /\ mpc = "done" =>
           \A host \in strip_failed :
               \E k \in 1..Len(zip_entries) :
                   zip_entries[k].name = compressed_name(arch_mapping[host])

\* A strip call failed, llvm-strip was then run on the other file, and the
\* run went on to compress the prefix and to write the archive.
C10_Witness ==
    /\ mpc = "done"
    /\ Len(stripped) = 2
    /\ stripped[1].rc # 0
    /\ stripped[2].path # stripped[1].path
    /\ CompressStarted(stripped[1].host)
    /\ \E k \in 1..Len(zip_entries) :
           zip_entries[k].content = <<"prefix", stripped[1].host>>

\* The entries of the archive that hold the prefix of the host.
TarballEntries(host) ==
    {k \in 1..Len(zip_entries) : zip_entries[k].content = <<"prefix", host>>}

\* C11: when every configured host is a key of the architecture mapping, a
\* run that completes has written one tarball per host, each under a name of
\* its own, and the archive holds exactly one entry with the prefix of every
\* configured host.
C11_OneTarballPerHost ==
    (mpc = "done" /\ ~UnmappedHost) =>
        /\ Cardinality(tar_files) = Len(hosts)
        /\ \A i, j \in 1..Len(tarballs) : (tarballs[i] = tarballs[j]) => (i = j)
        /\ \A i \in 1..Len(hosts) : Cardinality(TarballEntries(hosts[i])) = 1

\* _package_module was called.
PackageStarted == \E k \in 1..Len(mlog) : mlog[k] = <<"package", "">>

\* C12: when the name template references a key that the final props (the
\* parsed module.prop with the description set) do not hold, _package_module
\* fails with the KeyError of the substitution, and the output archive is
\* neither created nor written to.
C12_UnknownPlaceholderFailsEarly ==
    (PackageStarted /\ ~(config.name \subseteq Keys(props))) =>
        /\ mpc = "failed"
        /\ merror = KeyError("package")
        /\ ~zip_created
        /\ zip_entries = <<>>

\* The hosts were compressed, the template names a key module.prop lacks,
\* and the assemble stage has failed.
C12_Witness ==
    /\ PackageStarted
    /\ tar_files # {}
    /\ <<"k">> \in config.name
    /\ <<"k">> \notin Keys(props)
    /\ DescriptionKey \in Keys(props)
    /\ mpc = "failed"

----------------------------------------------------------------------------
(* Declaration order of the debloat rules *)

\* What one rule, applied on its own, does to a path its pattern matched.
RuleStep(t, rule, p) ==
    IF rule.str THEN RemoveUnconditional(t, p)
    ELSE LET branch == ConditionalBranch(t, p, RmIf(rule))
         IN  CASE branch = "rmtree" -> rmtree(t, p)
               [] branch = "unlink" -> unlink(t, p)
               [] OTHER -> t

\* The trees one rule can leave, over the orders its glob can yield in.
RECURSIVE RuleResults(_, _, _)
RuleResults(t, rule, yielded) ==
    LET pending == Glob(t, <<rule.pattern>>) \ yielded
    IN  IF pending = {} THEN {t}
        ELSE UNION {RuleResults(RuleStep(t, rule, p), rule, yielded \cup {p}) :
                      p \in pending}

\* The trees the rules leave when applied one by one in list order.
RECURSIVE InOrderResults(_, _)
InOrderResults(ts, rules) ==
    IF rules = <<>> THEN ts
    ELSE InOrderResults(UNION {RuleResults(t, Head(rules), {}) : t \in ts},
                        Tail(rules))

\* The patterns of the rule-order model: those above, and the names "b"
\* and "b/x".
OrderPatterns == Patterns \cup {<<"b">>, <<"b", "x">>}

\* Rule lists of one conditional and one unconditional rule, either first.
OrderRuleLists ==
    LET bare == {[str |-> TRUE, pattern |-> p, rm_if |-> {}] :
                   p \in OrderPatterns}
        tables == {[str |-> FALSE, pattern |-> p, rm_if |-> r] :
                     p \in OrderPatterns, r \in RmIfChoices}
    IN  {<<c, u>> : c \in tables, u \in bare}
            \cup {<<u, c>> : c \in tables, u \in bare}

DebloatOrderInit ==
    /\ tree \in Trees
    /\ tree0 = tree
    /\ tree1 = tree
    /\ debloat_patterns \in OrderRuleLists
    /\ dpc = "uncond"
    /\ dci = 1
    /\ seen = {}
    /\ drun = 1
    /\ removed = {}
    /\ ShebangIdle
    /\ PropIdle
    /\ SourceIdle
    /\ PackageIdle
    /\ WrapperIdle

SpecDebloatOrder == DebloatOrderInit /\ [][DebloatNext]_vars

\* A conditional rule is declared before an unconditional one.
ConditionalFirst ==
    \E i, j \in 1..Len(debloat_patterns) :
        i < j /\ ~debloat_patterns[i].str /\ debloat_patterns[j].str

\* C13: when a conditional rule is declared before an unconditional rule,
\* the tree a run of the debloat stage leaves is one that applying the rules
\* one by one in their declaration order leaves.
C13_DeclarationOrder ==
    (drun = 1 /\ dpc = "done" /\ ConditionalFirst) =>
        tree \in InOrderResults({tree0}, debloat_patterns)

----------------------------------------------------------------------------
(* The environment of the host commands *)

\* C14: every configure-host and every make-host command is run with the
\* environment _create_env built, none with the environment of the parent
\* process.
C14_HostCommandsUseBuildEnv ==
    \A k \in 1..Len(cmds) :
        cmds[k].cmd \in HostCommands => cmds[k].env = "build_env"

----------------------------------------------------------------------------
(* The order of the archive entries *)

\* Where an entry of the archive comes from: 0 the generated module.prop,
\* 1 a file of MODULE_DIR, 2 a tarball of a prefix, 3 an include.
EntryRank(entry) ==
    CASE entry.content[1] = "generated" -> 0
      [] entry.content[1] = MODULE_DIR.name -> 1
      [] entry.content[1] = "prefix" -> 2
      [] OTHER -> 3

\* C15 as stated: the generated module.prop is the first entry, the tarballs
\* follow it directly, and every other file comes after the last tarball.
C15_MetadataTarballsIncludes ==
    zip_created =>
        /\ EntryRank(zip_entries[1]) = 0
        /\ \A i, j \in 2..Len(zip_entries) :
               (i < j /\ EntryRank(zip_entries[j]) = 2)
                   => EntryRank(zip_entries[i]) = 2

\* C15 (amended): the generated module.prop is the first entry; the files of
\* the module directory follow, then the tarballs, then the includes: no
\* include is written before the last tarball, and no tarball before the
\* last file of the module directory.  A completed archive holds one tarball
\* entry per compressed host and the entries of every include.
C15_ArchiveOrder ==
    zip_created =>
        /\ EntryRank(zip_entries[1]) = 0
        /\ \A i, j \in 1..Len(zip_entries) :
               i < j => /\ EntryRank(zip_entries[i]) <= EntryRank(zip_entries[j])
                        /\ EntryRank(zip_entries[j]) > 0
        /\ mpc = "done" =>
               /\ Cardinality({k \in 1..Len(zip_entries) :
                                 EntryRank(zip_entries[k]) = 2}) = Len(tarballs)
               /\ \A i \in 1..Len(include) :
                      \E k \in 1..Len(zip_entries) :
                          /\ EntryRank(zip_entries[k]) = 3
                          /\ zip_entries[k].content[2] = include[i].name
                               \/ zip_entries[k].content[1] = include[i].name

\* A completed archive of two hosts with an included directory and
\* cacert.pem: module files, then two tarballs, then the includes.
C15_Witness ==
    /\ mpc = "done"
    /\ Len(tarballs) = 2
    /\ Len(include) = 2
    /\ include[1].kind = "dir"
    /\ \E k \in 1..Len(zip_entries) : EntryRank(zip_entries[k]) = 1

\* The entries of the archive named module.prop.
ModulePropEntries ==
    {k \in 1..Len(zip_entries) : zip_entries[k].name = "module.prop"}

\* C16: whatever the includes are, the archive holds exactly one entry named
\* module.prop, and it is the generated metadata.
C16_SingleModuleProp ==
    zip_created =>
        /\ Cardinality(ModulePropEntries) = 1
        /\ \A k \in ModulePropEntries :
               zip_entries[k].content = <<"generated", "module.prop">>

----------------------------------------------------------------------------
(* update-bin.py: sync_wrappers                                            *)
(*                                                                         *)
(* A directory is a function from names to what the name is in it: absent, *)
(* a regular file, a wrapper written by create_wrapper (a regular file     *)
(* too), or a directory.                                                   *)

\* Bound of the model: the number of entries of PATH.
MaxPathEntries == 2

\* The file names of the model.
WrapperNames == {"python3", "pip"}

\* file.is_file()
wrapper_is_file(kind) == kind \in {"file", "wrapper"}

\* The listings of a directory before any sync.
Listings == [WrapperNames -> {"absent", "file", "dir"}]

\* An entry of PATH: whether HOME is a substring of it, whether it is a
\* directory, and what it holds if it is one.
PathEntries ==
    {[home |-> h, is_dir |-> TRUE, names |-> l] :
        h \in BOOLEAN, l \in Listings}
    \cup {[home |-> h, is_dir |-> FALSE,
           names |-> [n \in WrapperNames |-> "absent"]] : h \in BOOLEAN}

\* iter_env_path with no filter on HOME.
AnyEntry(entry) == entry.is_dir

\* iter_env_path: the entry is yielded (HOME in entry, path.is_dir()).
Yielded(entry) == entry.home /\ entry.is_dir

WrapperInit ==
    /\ module_bin \in Listings
    /\ module_bin0 = module_bin
    /\ module_bin1 = module_bin
    /\ env_path \in SeqUpTo(PathEntries, MaxPathEntries)
    /\ wpc = "scan"
    /\ path_i = 1
    /\ existing_wrappers = {}
    /\ available_executables = {}
    /\ wseen = {}
    /\ wcreated = {}
    /\ wremoved = {}
    /\ wrun = 1
    /\ DebloatIdle
    /\ ShebangIdle
    /\ PropIdle
    /\ SourceIdle
    /\ PackageIdle

\* existing_wrappers = {file.name: file for file in MODULE_BIN.iterdir()
\*                      if file.is_file()}
ScanModuleBin ==
    /\ wpc = "scan"
    /\ existing_wrappers' =
           {n \in WrapperNames : wrapper_is_file(module_bin[n])}
    /\ available_executables' = {}
    /\ path_i' = 1
    /\ wpc' = "path"
    /\ UNCHANGED <<module_bin, module_bin0, module_bin1, env_path, wseen,
                   wcreated, wremoved, wrun>>
    /\ UNCHANGED notWrapper

\* for entry in iter_env_path(): available_executables.update(...)
ScanPathEntry ==
    /\ wpc = "path"
    /\ path_i <= Len(env_path)
    /\ LET entry == env_path[path_i]
       IN  available_executables' =
               IF Yielded(entry)
               THEN available_executables
                        \cup {n \in WrapperNames :
                                wrapper_is_file(entry.names[n])}
               ELSE available_executables
    /\ path_i' = path_i + 1
    /\ UNCHANGED <<module_bin, module_bin0, module_bin1, env_path, wpc,
                   existing_wrappers, wseen, wcreated, wremoved, wrun>>
    /\ UNCHANGED notWrapper

\* iter_env_path is exhausted.
ScanPathEnd ==
    /\ wpc = "path"
    /\ path_i > Len(env_path)
    /\ wpc' = "create"
    /\ wseen' = {}
    /\ UNCHANGED <<module_bin, module_bin0, module_bin1, env_path, path_i,
                   existing_wrappers, available_executables, wcreated,
                   wremoved, wrun>>
    /\ UNCHANGED notWrapper

\* for name in available_executables: if name not in existing_wrappers:
\*     create_wrapper(MODULE_BIN / name)
\* write_text on a name that is a directory raises an OSError, which main
\* turns into SystemExit(1).
CreateLoop ==
    /\ wpc = "create"
    /\ \E name \in available_executables \ wseen :
        /\ wseen' = wseen \cup {name}
        /\ IF name \in existing_wrappers
           THEN UNCHANGED <<module_bin, wcreated, wpc>>
           ELSE /\ wcreated' = wcreated \cup {name}
                /\ IF module_bin[name] = "dir"
                   THEN wpc' = "failed" /\ UNCHANGED module_bin
                   ELSE /\ module_bin' = [module_bin EXCEPT ![name] = "wrapper"]
                        /\ UNCHANGED wpc
    /\ UNCHANGED <<module_bin0, module_bin1, env_path, path_i,
                   existing_wrappers, available_executables, wremoved, wrun>>
    /\ UNCHANGED notWrapper

\* The first loop ends.
CreateLoopEnd ==
    /\ wpc = "create"
    /\ available_executables \subseteq wseen
    /\ wpc' = "remove"
    /\ wseen' = {}
    /\ UNCHANGED <<module_bin, module_bin0, module_bin1, env_path, path_i,
                   existing_wrappers, available_executables, wcreated,
                   wremoved, wrun>>
    /\ UNCHANGED notWrapper

\* for name, path in existing_wrappers.items():
\*     if name not in available_executables: remove_wrapper(path)
RemoveLoop ==
    /\ wpc = "remove"
    /\ \E name \in existing_wrappers \ wseen :
        /\ wseen' = wseen \cup {name}
        /\ IF name \in available_executables
           THEN UNCHANGED <<module_bin, wremoved>>
           ELSE /\ module_bin' = [module_bin EXCEPT ![name] = "absent"]
                /\ wremoved' = wremoved \cup {name}
    /\ UNCHANGED <<module_bin0, module_bin1, env_path, wpc, path_i,
                   existing_wrappers, available_executables, wcreated, wrun>>
    /\ UNCHANGED notWrapper

\* sync_wrappers returns.
SyncReturn ==
    /\ wpc = "remove"
    /\ existing_wrappers \subseteq wseen
    /\ wpc' = "done"
    /\ module_bin1' = IF wrun = 1 THEN module_bin ELSE module_bin1
    /\ UNCHANGED <<module_bin, module_bin0, env_path, path_i,
                   existing_wrappers, available_executables, wseen, wcreated,
                   wremoved, wrun>>
    /\ UNCHANGED notWrapper

\* The script is run again, PATH and its directories unchanged.
SyncAgain ==
    /\ wpc = "done"
    /\ wrun = 1
    /\ wrun' = 2
    /\ wpc' = "scan"
    /\ wseen' = {}
    /\ wcreated' = {}
    /\ wremoved' = {}
    /\ UNCHANGED <<module_bin, module_bin0, module_bin1, env_path, path_i,
                   existing_wrappers, available_executables>>
    /\ UNCHANGED notWrapper

WrapperNext ==
    \/ ScanModuleBin
    \/ ScanPathEntry
    \/ ScanPathEnd
    \/ CreateLoop
    \/ CreateLoopEnd
    \/ RemoveLoop
    \/ SyncReturn
    \/ SyncAgain

SpecWrapper == WrapperInit /\ [][WrapperNext]_vars

\* The regular-file names of the PATH directories that contain HOME.
AvailableNames ==
    {n \in WrapperNames :
        \E i \in 1..Len(env_path) :
            /\ env_path[i].home
            /\ env_path[i].is_dir
            /\ wrapper_is_file(env_path[i].names[n])}

\* The regular-file names of a listing of MODULE_BIN.
FileNames(listing) == {n \in WrapperNames : wrapper_is_file(listing[n])}

\* C17: when sync_wrappers has returned, the regular-file names of
\* MODULE_BIN are the available names.  The first sync creates a wrapper
\* for exactly the available names that had none, removes exactly the
\* wrappers whose name is not available and leaves the other wrappers as
\* they were; a second sync creates and removes nothing.
C17_SyncMatchesPath ==
    wpc = "done" =>
        /\ FileNames(module_bin) = AvailableNames
        /\ wrun = 1 =>
               /\ wcreated = AvailableNames \ FileNames(module_bin0)
               /\ wremoved = FileNames(module_bin0) \ AvailableNames
               /\ \A n \in FileNames(module_bin0) \cap AvailableNames :
                      module_bin[n] = module_bin0[n]
        /\ wrun = 2 =>
               /\ wcreated = {}
               /\ wremoved = {}
               /\ module_bin = module_bin1

\* The second sync has returned after a first one that created a wrapper
\* and removed another, with a PATH entry outside HOME that holds a file.
C17_Witness ==
    /\ wpc = "done"
    /\ wrun = 2
    /\ \E n \in WrapperNames : module_bin0[n] = "absent" /\ module_bin[n] = "wrapper"
    /\ \E n \in WrapperNames : module_bin0[n] = "file" /\ module_bin[n] = "absent"
    /\ \E i \in 1..Len(env_path) :
           /\ ~env_path[i].home
           /\ env_path[i].is_dir
           /\ \E n \in WrapperNames : env_path[i].names[n] = "file"

====
